---- MODULE Spec2Model ----
(***************************************************************************)
(* A model of the code cells of the documentation notebooks                *)
(*   docs/tutorials/how-to-getting-started-with-estimator.ipynb            *)
(* (the Estimator session tutorial and the custom expectation value        *)
(* program: main, expectation_value_runner, heavy_projector).              *)
(*                                                                         *)
(* Python values are modelled by their shape:                              *)
(*   - a value that is either one object or a list of objects is the       *)
(*     record [isList, items]; a single object x is                        *)
(*     [isList |-> FALSE, items |-> <<x>>];                                *)
(*   - a circuit is [id, transpiled];                                      *)
(*   - a dict of keyword arguments is a set of <<key, value>> pairs;       *)
(*   - a dict of bitstring probabilities is a function from its keys.      *)
(***************************************************************************)
EXTENDS Integers, Sequences, FiniteSets, TLC

VARIABLES
    runner,        \* frame of the last expectation_value_runner call
    ncalls,        \* number of expectation_value_runner calls made
    service_runs,  \* number of service.run invocations made
    prog,          \* frame of the invocation of the runtime program main
    qv_probs,      \* the probability dictionary the caller holds
    hp,            \* frame of the last heavy_projector call
    heavy_projectors, \* the notebook's list of heavy-set projectors
    expect,        \* an evaluation of the diagonal-operator formula
    cell,          \* index of the next notebook cell to run
    jobs,          \* the jobs bound to the notebook's names job, job2, job3
    waiting,       \* the job whose result() call blocks the kernel, or "none"
    owner,         \* who runs main in prog: "local", a job, or "none"
    session,       \* state of the Estimator session: "none", "open", "closed"
    stmt,          \* index of the next statement of the session cell
    results,       \* the results the session cell has bound so far
    events         \* the uses of the session so far, in order

runnerVars == <<runner, ncalls, service_runs>>
heavyVars == <<qv_probs, hp, heavy_projectors>>
nbVars == <<cell, jobs, waiting, owner>>
sessVars == <<session, stmt, results, events>>
vars == <<runner, ncalls, service_runs, prog, qv_probs, hp, heavy_projectors,
          expect,
          cell, jobs, waiting, owner, session, stmt, results, events>>

(***************************************************************************)
(* Bounds of the model.                                                    *)
(***************************************************************************)
\* longest list of circuits or of expectation operators passed to a call
MaxLen == 3
\* number of expectation_value_runner calls in one behaviour
MaxCalls == 3
\* most entries of a probability dictionary, and the largest probability
\* weight of an entry
MaxKeys == 4
MaxWeight == 3
\* most qubits of an operator string
MaxQubits == 4
\* number of distinguished outcomes of the shots of one estimate
MaxSample == 2

(***************************************************************************)
(* Python values.                                                          *)
(***************************************************************************)
Single(x) == [isList |-> FALSE, items |-> <<x>>]
List(s) == [isList |-> TRUE, items |-> s]

\* isinstance(v, list)
IsList(v) == v.isList

\* len(v) of a list
PyLen(v) == Len(v.items)

\* lst * n : the list repeated n times (the empty list when n <= 0)
RECURSIVE Repeat(_, _)
Repeat(s, n) == IF n <= 0 THEN << >> ELSE s \o Repeat(s, n - 1)

ListTimes(v, n) == List(Repeat(v.items, n))

Circuit(i) == [id |-> i, transpiled |-> FALSE]

\* a backend given by name, and a backend object with a name attribute
BackendStr(s) == [isStr |-> TRUE, str |-> s, name |-> ""]
BackendObj(n) == [isStr |-> FALSE, str |-> "", name |-> n]

EmptyDict == {}

(***************************************************************************)
(* expectation_value_runner                                                *)
(***************************************************************************)
\* default values of the keyword parameters
DefaultShots == 8192
DefaultOperators == Single("")

\* the program id returned by service.upload_program
program_id == "sample-expval-RL2YzPQEe1"

\* if not isinstance(backend, str): backend = backend.name
BackendName(backend) == IF ~backend.isStr THEN backend.name ELSE backend.str

\* Mutants of the validation block: the length check dropped, and the length
\* check written with < in place of !=.
ValidateNoCheck(circuits, expectation_operators) ==
    IF IsList(circuits) /\ PyLen(circuits) # 1 /\ IsList(expectation_operators)
       /\ PyLen(expectation_operators) = 1
    THEN [raised |-> FALSE,
          expectation_operators |->
              ListTimes(expectation_operators, PyLen(circuits))]
    ELSE [raised |-> FALSE, expectation_operators |-> expectation_operators]

ValidateLessThan(circuits, expectation_operators) ==
    IF IsList(circuits) /\ PyLen(circuits) # 1 /\ IsList(expectation_operators)
    THEN IF PyLen(expectation_operators) = 1
         THEN [raised |-> FALSE,
               expectation_operators |->
                   ListTimes(expectation_operators, PyLen(circuits))]
         ELSE [raised |-> PyLen(circuits) < PyLen(expectation_operators),
               expectation_operators |-> expectation_operators]
    ELSE [raised |-> FALSE, expectation_operators |-> expectation_operators]

\* Mutant: a single operator is not broadcast but compared like any list.
ValidateNoBroadcast(circuits, expectation_operators) ==
    IF IsList(circuits) /\ PyLen(circuits) # 1 /\ IsList(expectation_operators)
    THEN [raised |-> PyLen(circuits) # PyLen(expectation_operators),
          expectation_operators |-> expectation_operators]
    ELSE [raised |-> FALSE, expectation_operators |-> expectation_operators]

\* The validation block: the value of the local expectation_operators after
\* it, and whether ValueError was raised.
Validate(circuits, expectation_operators) ==
    IF IsList(circuits) /\ PyLen(circuits) # 1
    THEN IF IsList(expectation_operators)
         THEN IF PyLen(circuits) # 1 /\ PyLen(expectation_operators) = 1
              THEN [raised |-> FALSE,
                    expectation_operators |->
                        ListTimes(expectation_operators, PyLen(circuits))]
              ELSE IF PyLen(circuits) # PyLen(expectation_operators)
                   THEN [raised |-> TRUE,
                         expectation_operators |-> expectation_operators]
                   ELSE [raised |-> FALSE,
                         expectation_operators |-> expectation_operators]
         ELSE [raised |-> FALSE, expectation_operators |-> expectation_operators]
    ELSE [raised |-> FALSE, expectation_operators |-> expectation_operators]

\* Mutant: return_stddev and skip_transpilation stored under each other's
\* key.
InputsFlagsSwapped(a, expectation_operators) ==
    [circuits |-> a.circuits,
     expectation_operators |-> expectation_operators,
     shots |-> a.shots,
     transpiler_config |-> a.transpiler_config,
     run_config |-> a.run_config,
     return_stddev |-> a.skip_transpilation,
     skip_transpilation |-> a.return_stddev,
     use_measurement_mitigation |-> a.use_measurement_mitigation]

\* The inputs dictionary built after validation.
Inputs(a, expectation_operators) ==
    [circuits |-> a.circuits,
     expectation_operators |-> expectation_operators,
     shots |-> a.shots,
     transpiler_config |-> a.transpiler_config,
     run_config |-> a.run_config,
     return_stddev |-> a.return_stddev,
     skip_transpilation |-> a.skip_transpilation,
     use_measurement_mitigation |-> a.use_measurement_mitigation]

\* service.run(program_id, options=options, inputs=inputs): the job handle
ServiceRun(pid, options, inputs, n) ==
    [job_id |-> n, program_id |-> pid, options |-> options, inputs |-> inputs]

NoJob == [job_id |-> 0]

\* The objects a caller passes by reference, which the callee could write.
Objects(a) ==
    [circuits |-> a.circuits,
     expectation_operators |-> a.expectation_operators,
     transpiler_config |-> a.transpiler_config,
     run_config |-> a.run_config]

\* The keyword parameters a call leaves out: for these the parameter is the
\* default object of the function, shared by all its calls.
Omitted(a) == IF "omitted" \in DOMAIN a THEN a.omitted ELSE {}

\* transpiler_config={}, run_config={} as the function definition makes them
EmptyDefaults == [transpiler_config |-> EmptyDict, run_config |-> EmptyDict]

\* the default dictionaries of expectation_value_runner as the calls so far
\* have left them
RunnerDefaults == IF runner.called THEN runner.defaults ELSE EmptyDefaults

\* the default dictionaries after a call that left the caller's objects as
\* objects: a parameter that was left out is the default object itself
DefaultsAfter(a, objects, defaults) ==
    [k \in DOMAIN defaults |->
        IF k \in Omitted(a) THEN objects[k] ELSE defaults[k]]

\* Mutant: the operator is broadcast in place
\* (expectation_operators *= len(circuits)).
RunnerObjectsBroadcastInPlace(a) ==
    [Objects(a) EXCEPT !.expectation_operators =
        Validate(a.circuits, a.expectation_operators).expectation_operators]

\* The caller's objects after the call: "expectation_operators =
\* expectation_operators * len(circuits)" binds the local name to a new list,
\* and inputs only holds references; no statement writes to an object.
RunnerObjects(a) == Objects(a)

\* Mutant: the job is submitted before the arguments are validated.
RunnerFrameSubmitsFirst(a, n) ==
    LET v == Validate(a.circuits, a.expectation_operators)
        options == [backend_name |-> BackendName(a.backend)]
    IN  [called |-> TRUE,
         args |-> a,
         raised |-> v.raised,
         options |-> options,
         expectation_operators |-> v.expectation_operators,
         objects |-> RunnerObjects(a),
         defaults |-> DefaultsAfter(a, RunnerObjects(a), RunnerDefaults),
         submitted |-> TRUE,
         result |-> ServiceRun(program_id, options,
                               Inputs(a, a.expectation_operators), n)]

\* The frame a call with arguments a leaves behind.
RunnerFrame(a, n) ==
    LET v == Validate(a.circuits, a.expectation_operators)
        options == [backend_name |-> BackendName(a.backend)]
    IN  [called |-> TRUE,
         args |-> a,
         raised |-> v.raised,
         options |-> options,
         expectation_operators |-> v.expectation_operators,
         objects |-> RunnerObjects(a),
         defaults |-> DefaultsAfter(a, RunnerObjects(a), RunnerDefaults),
         submitted |-> ~v.raised,
         result |-> IF v.raised THEN NoJob
                    ELSE ServiceRun(program_id, options,
                                    Inputs(a, v.expectation_operators), n)]

NoCall == [called |-> FALSE]

\* One whole call of expectation_value_runner with arguments a.
RunnerCall(a) ==
    /\ ncalls < MaxCalls
    /\ runner' = RunnerFrame(a, service_runs + 1)
    /\ ncalls' = ncalls + 1
    /\ service_runs' = IF runner'.submitted THEN service_runs + 1 ELSE service_runs

(***************************************************************************)
(* The arguments the calls are drawn from.                                 *)
(***************************************************************************)
CircuitList(n) == List([i \in 1..n |-> Circuit(i)])
CircuitArgs == {Single(Circuit(1))} \cup {CircuitList(n) : n \in 0..MaxLen}

OperatorPool == <<"ZZZZ", "IIII", "IZZZ", "ZZZ", "ZZ", "II">>
OperatorList(n) == List([i \in 1..n |-> OperatorPool[i]])
OperatorArgs ==
    {DefaultOperators, Single("ZZZZ")} \cup {OperatorList(n) : n \in 0..MaxLen}

BackendArgs == {BackendStr("ibmq_qasm_simulator"), BackendObj("ibmq_manila")}

SabreConfig == {<<"optimization_level", "3">>, <<"layout_method", "sabre">>,
                <<"routing_method", "sabre">>}
SomeRunConfig == {<<"memory", "True">>}
OtherShots == 1024

\* The keyword arguments of a call: the defaults, each default changed alone,
\* and all of them changed.
DefaultKeywords ==
    [shots |-> DefaultShots,
     transpiler_config |-> EmptyDict,
     run_config |-> EmptyDict,
     skip_transpilation |-> FALSE,
     return_stddev |-> FALSE,
     use_measurement_mitigation |-> FALSE]

KeywordArgs ==
    {DefaultKeywords,
     [DefaultKeywords EXCEPT !.shots = OtherShots],
     [DefaultKeywords EXCEPT !.transpiler_config = SabreConfig],
     [DefaultKeywords EXCEPT !.run_config = SomeRunConfig],
     [DefaultKeywords EXCEPT !.skip_transpilation = TRUE],
     [DefaultKeywords EXCEPT !.return_stddev = TRUE],
     [DefaultKeywords EXCEPT !.use_measurement_mitigation = TRUE],
     [shots |-> OtherShots,
      transpiler_config |-> SabreConfig,
      run_config |-> SomeRunConfig,
      skip_transpilation |-> TRUE,
      return_stddev |-> TRUE,
      use_measurement_mitigation |-> TRUE]}

RunnerArgs ==
    [backend : BackendArgs,
     circuits : CircuitArgs,
     expectation_operators : OperatorArgs,
     kw : KeywordArgs]

CallArgs(r) ==
    [backend |-> r.backend,
     circuits |-> r.circuits,
     expectation_operators |-> r.expectation_operators,
     shots |-> r.kw.shots,
     transpiler_config |-> r.kw.transpiler_config,
     run_config |-> r.kw.run_config,
     skip_transpilation |-> r.kw.skip_transpilation,
     return_stddev |-> r.kw.return_stddev,
     use_measurement_mitigation |-> r.kw.use_measurement_mitigation]

RunnerIdle ==
    /\ runner = NoCall
    /\ ncalls = 0
    /\ service_runs = 0

CallRunner ==
    /\ \E r \in RunnerArgs : RunnerCall(CallArgs(r))
    /\ UNCHANGED <<prog, heavyVars, expect, nbVars, sessVars>>

(***************************************************************************)
(* The runtime program main.  Its frame prog holds the arguments (args),   *)
(* the locals, the external calls made so far in order (calls) and the     *)
(* returned value (retval).  An external call is logged as                 *)
(* [fn, args, out]; a value computed by an external routine is the record  *)
(* of what it was computed from.                                           *)
(***************************************************************************)
NoValue == Single("None")

\* x as the element of a list: [x]
PyObj(v) == IF v.isList THEN v ELSE v.items[1]

\* [v] * n
WrapTimes(v, n) == List(Repeat(<<PyObj(v)>>, n))

Range(f) == {f[i] : i \in DOMAIN f}

Call(fn, args, out) == [fn |-> fn, args |-> args, out |-> out]

CallsOf(calls, fn) == {i \in 1..Len(calls) : calls[i].fn = fn}

\* qiskit.transpile on one circuit
Transpiled(c) == [id |-> c.id, transpiled |-> TRUE]

\* transpile(circuits, backend=backend, **transpiler_config): a single
\* circuit gives a single circuit and a list gives a list, except that a
\* list of one circuit gives, depending on the qiskit version, a list or the
\* circuit itself.
TranspileOutputs(circuits) ==
    LET out == [i \in 1..Len(circuits.items) |-> Transpiled(circuits.items[i])]
    IN  IF ~IsList(circuits) THEN {Single(out[1])}
        ELSE IF Len(out) = 1 THEN {List(out), Single(out[1])}
        ELSE {List(out)}

\* the default dictionaries of main as the runs so far have left them
MainDefaultDicts ==
    IF "defaults" \in DOMAIN prog THEN prog.defaults ELSE EmptyDefaults

\* The frame on entry to main(backend, user_messenger, circuits, ...).
MainEntry(a) ==
    [pc |-> "transpile",
     args |-> a,
     objects |-> Objects(a),
     defaults |-> DefaultsAfter(a, Objects(a), MainDefaultDicts),
     trans_circuits |-> NoValue,
     duplicate_results |-> FALSE,
     meas_maps |-> NoValue,
     mit |-> [built |-> FALSE, calibrated |-> FALSE],
     raw_counts |-> NoValue,
     quasi_dists |-> NoValue,
     calls |-> << >>,
     retval |-> NoValue]

\* Mutant: the circuits are transpiled whatever skip_transpilation says.
AlwaysTranspile(p, out) ==
    [p EXCEPT !.pc = "duplicate",
              !.trans_circuits = IF ~IsList(out) THEN List(out.items) ELSE out,
              !.calls = Append(@, Call("transpile",
                            <<p.args.circuits, p.args.backend,
                              p.args.transpiler_config>>, out))]

\* Mutant: "Make sure everything is a list" left out on both branches.
TranspileWithoutWrapping(p, out) ==
    IF ~p.args.skip_transpilation
    THEN [p EXCEPT !.pc = "duplicate",
                   !.trans_circuits = out,
                   !.calls = Append(@, Call("transpile",
                                 <<p.args.circuits, p.args.backend,
                                   p.args.transpiler_config>>, out))]
    ELSE [p EXCEPT !.pc = "duplicate",
                   !.trans_circuits = p.args.circuits]

\* "transpiling the circuits using given transpile options": out is what
\* transpile returns when it is called.
AfterTranspile(p, out) ==
    IF ~p.args.skip_transpilation
    THEN [p EXCEPT !.pc = "duplicate",
                   !.trans_circuits =
                       IF ~IsList(out) THEN List(out.items) ELSE out,
                   !.calls = Append(@, Call("transpile",
                                 <<p.args.circuits, p.args.backend,
                                   p.args.transpiler_config>>, out))]
    ELSE [p EXCEPT !.pc = "duplicate",
                   !.trans_circuits =
                       IF ~IsList(p.args.circuits)
                       THEN List(p.args.circuits.items)
                       ELSE p.args.circuits]

\* Mutant: the flag is set only for more than one expectation operator.
DuplicateOnlyForSeveral(p) ==
    [p EXCEPT !.pc = "calibrate",
              !.duplicate_results =
                  IF IsList(p.args.expectation_operators)
                  THEN PyLen(p.args.expectation_operators) > 1
                       /\ PyLen(p.trans_circuits) = 1
                  ELSE FALSE]

\* "If we are given a single circuit but requesting multiple expectation
\* values, then set flag to make multiple pointers to same result."
AfterDuplicateFlag(p) ==
    [p EXCEPT !.pc = "calibrate",
              !.duplicate_results =
                  IF IsList(p.args.expectation_operators)
                  THEN PyLen(p.args.expectation_operators) # 0
                       /\ PyLen(p.trans_circuits) = 1
                  ELSE FALSE]

\* mthree.utils.final_measurement_mapping(trans_circuits)
FinalMeasurementMapping(trans_circuits) ==
    [i \in 1..PyLen(trans_circuits) |->
        [kind |-> "meas_map", circuit |-> trans_circuits.items[i]]]

\* Mutant: the mitigator is calibrated on the circuits as supplied, not on
\* the circuits that will be run.
CalibrateOnSuppliedCircuits(p) ==
    IF p.args.use_measurement_mitigation
    THEN LET supplied == IF IsList(p.args.circuits) THEN p.args.circuits
                         ELSE List(p.args.circuits.items)
             meas_maps == List(FinalMeasurementMapping(supplied))
         IN  [p EXCEPT !.pc = "run",
                       !.meas_maps = meas_maps,
                       !.mit = [built |-> TRUE, calibrated |-> TRUE],
                       !.calls = @ \o
                           <<Call("final_measurement_mapping",
                                  <<supplied>>, meas_maps),
                             Call("M3Mitigation", <<p.args.backend>>, NoValue),
                             Call("cals_from_system", <<meas_maps>>, NoValue)>>]
    ELSE [p EXCEPT !.pc = "run"]

\* "If doing measurement mitigation we must build and calibrate a mitigator
\* object."
AfterCalibrate(p) ==
    IF p.args.use_measurement_mitigation
    THEN LET meas_maps == List(FinalMeasurementMapping(p.trans_circuits))
         IN  [p EXCEPT !.pc = "run",
                       !.meas_maps = meas_maps,
                       !.mit = [built |-> TRUE, calibrated |-> TRUE],
                       !.calls = @ \o
                           <<Call("final_measurement_mapping",
                                  <<p.trans_circuits>>, meas_maps),
                             Call("M3Mitigation", <<p.args.backend>>, NoValue),
                             Call("cals_from_system", <<meas_maps>>, NoValue)>>]
    ELSE [p EXCEPT !.pc = "run"]

\* backend.run(trans_circuits, shots=shots, **run_config).result()
\* .get_counts(): the counts of the one circuit run, or the list of the
\* counts of each circuit when several were run.
GetCounts(trans_circuits, shots) ==
    LET counts == [i \in 1..PyLen(trans_circuits) |->
                      [kind |-> "counts", circuit |-> trans_circuits.items[i],
                       shots |-> shots]]
    IN  IF Len(counts) = 1 THEN Single(counts[1]) ELSE List(counts)

\* "Compute raw results", first moment: backend.run(trans_circuits,
\* shots=shots, **run_config) submits the circuits and returns a job; main
\* then waits in .result() for the backend to execute them.
AfterBackendRun(p) ==
    [p EXCEPT !.pc = "wait",
              !.calls = Append(@, Call("backend.run",
                            <<p.trans_circuits, p.args.shots, p.args.run_config>>,
                            NoValue))]

\* "Compute raw results", second moment: the backend has executed the
\* circuits, .result() returns and raw_counts = result.get_counts().
AfterResult(p) ==
    LET raw_counts == GetCounts(p.trans_circuits, p.args.shots)
    IN  [p EXCEPT !.pc = "evaluate",
                  !.raw_counts = raw_counts,
                  !.calls = Append(@, Call("get_counts", << >>, raw_counts))]

\* mit.apply_correction(raw_counts, meas_maps,
\*                      return_mitigation_overhead=return_stddev)
ApplyCorrection(raw_counts, meas_maps, overhead) ==
    [isList |-> raw_counts.isList,
     items |-> [i \in 1..Len(raw_counts.items) |->
                   [kind |-> "quasi", counts |-> raw_counts.items[i],
                    meas_map |-> meas_maps.items[i], overhead |-> overhead]]]

\* The value an expectation routine returns: which routine it is, and the
\* distributions and operators it was applied to.
Expval(routine, dists, ops) ==
    [routine |-> routine, dists |-> dists, ops |-> ops]

\* Mutant: the mitigated path forgets return_stddev.
MitigatedExpvalOnly(p) ==
    LET corrected == ApplyCorrection(p.raw_counts, p.meas_maps, p.args.return_stddev)
        quasi_dists == IF p.duplicate_results
                       THEN WrapTimes(corrected, PyLen(p.args.expectation_operators))
                       ELSE corrected
    IN  [p EXCEPT !.pc = "done",
                  !.quasi_dists = quasi_dists,
                  !.calls = Append(@, Call("apply_correction",
                                <<p.raw_counts, p.meas_maps, p.args.return_stddev>>,
                                corrected)),
                  !.retval = Expval("expval", quasi_dists,
                                    p.args.expectation_operators)]

\* "When using measurement mitigation we need to apply the correction and
\* then compute the expectation values from the computed
\* quasi-probabilities."
AfterMitigated(p) ==
    LET corrected == ApplyCorrection(p.raw_counts, p.meas_maps, p.args.return_stddev)
        quasi_dists == IF p.duplicate_results
                       THEN WrapTimes(corrected, PyLen(p.args.expectation_operators))
                       ELSE corrected
    IN  [p EXCEPT !.pc = "done",
                  !.quasi_dists = quasi_dists,
                  !.calls = Append(@, Call("apply_correction",
                                <<p.raw_counts, p.meas_maps, p.args.return_stddev>>,
                                corrected)),
                  !.retval = Expval(IF p.args.return_stddev
                                    THEN "expval_and_stddev" ELSE "expval",
                                    quasi_dists, p.args.expectation_operators)]

\* "If the program didn't return in the mitigation loop above it means we
\* are processing the raw_counts data."
AfterRaw(p) ==
    LET raw_counts == IF p.duplicate_results
                      THEN WrapTimes(p.raw_counts,
                                     PyLen(p.args.expectation_operators))
                      ELSE p.raw_counts
    IN  [p EXCEPT !.pc = "done",
                  !.raw_counts = raw_counts,
                  !.retval = Expval(IF p.args.return_stddev
                                    THEN "expval_and_stddev" ELSE "expval",
                                    raw_counts, p.args.expectation_operators)]

\* Mutant: the counts are evaluated directly although mitigation was asked.
EvaluateRawAlways(p) == AfterRaw(p)

\* The last block of main: the mitigated or the raw-counts path.
AfterEvaluate(p) ==
    IF p.args.use_measurement_mitigation THEN AfterMitigated(p) ELSE AfterRaw(p)

(***************************************************************************)
(* The steps of main.                                                      *)
(***************************************************************************)
MainTranspile ==
    /\ prog.pc = "transpile"
    /\ \E out \in TranspileOutputs(prog.args.circuits) :
           prog' = AfterTranspile(prog, out)
    /\ UNCHANGED <<runnerVars, heavyVars, expect, nbVars, sessVars>>

MainDuplicateFlag ==
    /\ prog.pc = "duplicate"
    /\ prog' = AfterDuplicateFlag(prog)
    /\ UNCHANGED <<runnerVars, heavyVars, expect, nbVars, sessVars>>

MainCalibrate ==
    /\ prog.pc = "calibrate"
    /\ prog' = AfterCalibrate(prog)
    /\ UNCHANGED <<runnerVars, heavyVars, expect, nbVars, sessVars>>

MainRun ==
    /\ prog.pc = "run"
    /\ prog' = AfterBackendRun(prog)
    /\ UNCHANGED <<runnerVars, heavyVars, expect, nbVars, sessVars>>

MainResult ==
    /\ prog.pc = "wait"
    /\ prog' = AfterResult(prog)
    /\ UNCHANGED <<runnerVars, heavyVars, expect, nbVars, sessVars>>

MainEvaluate ==
    /\ prog.pc = "evaluate"
    /\ prog' = AfterEvaluate(prog)
    /\ UNCHANGED <<runnerVars, heavyVars, expect, nbVars, sessVars>>

(***************************************************************************)
(* Specification SpecMain: one invocation of main on arguments drawn from  *)
(* bounded sets.                                                           *)
(***************************************************************************)
MainCircuitArgs == {Single(Circuit(1))} \cup {CircuitList(n) : n \in 1..MaxLen}

MainArgs ==
    [circuits : MainCircuitArgs,
     expectation_operators : OperatorArgs,
     kw : {<<DefaultShots, EmptyDict, EmptyDict>>,
           <<OtherShots, SabreConfig, SomeRunConfig>>},
     skip_transpilation : BOOLEAN,
     return_stddev : BOOLEAN,
     use_measurement_mitigation : BOOLEAN]

MainCallArgs(r) ==
    [backend |-> BackendObj("fake_santiago"),
     circuits |-> r.circuits,
     expectation_operators |-> r.expectation_operators,
     shots |-> r.kw[1],
     transpiler_config |-> r.kw[2],
     run_config |-> r.kw[3],
     skip_transpilation |-> r.skip_transpilation,
     return_stddev |-> r.return_stddev,
     use_measurement_mitigation |-> r.use_measurement_mitigation]

MainEnter ==
    /\ prog.pc = "idle"
    /\ \E r \in MainArgs : prog' = MainEntry(MainCallArgs(r))
    /\ UNCHANGED <<runnerVars, heavyVars, expect, nbVars, sessVars>>

(***************************************************************************)
(* The metadata uploaded with the program and the signature of main.  A    *)
(* default is a Python value written as its type and its literal.          *)
(***************************************************************************)
PyValue(type, literal) == [type |-> type, literal |-> literal]

\* a schema property that declares no default
NoDefault == [type |-> "undeclared"]

\* meta["spec"]["parameters"]["properties"]: the declared type and default
\* of each property
meta_parameters ==
    [circuits |-> [type |-> {"array", "object"}, default |-> NoDefault],
     expectation_operators |->
         [type |-> {"string", "object", "array"}, default |-> NoDefault],
     shots |-> [type |-> {"integer"}, default |-> NoDefault],
     transpiler_config |-> [type |-> {"object"}, default |-> NoDefault],
     run_config |->
         [type |-> {"object"}, default |-> PyValue("bool", "False")],
     return_stddev |->
         [type |-> {"boolean"}, default |-> PyValue("bool", "False")],
     use_measurement_mitigation |->
         [type |-> {"boolean"}, default |-> PyValue("bool", "False")]]

\* the properties that declare a default
SchemaDefaulted ==
    {k \in DOMAIN meta_parameters : meta_parameters[k].default # NoDefault}

\* the defaults in the signature of main
MainDefaults ==
    [expectation_operators |-> PyValue("str", "\"\""),
     shots |-> PyValue("int", "8192"),
     transpiler_config |-> PyValue("dict", "{}"),
     run_config |-> PyValue("dict", "{}"),
     skip_transpilation |-> PyValue("bool", "False"),
     return_stddev |-> PyValue("bool", "False"),
     use_measurement_mitigation |-> PyValue("bool", "False")]

(***************************************************************************)
(* heavy_projector.  A probability dictionary is the sequence of its       *)
(* [key, val] entries in insertion order; the probabilities are weights    *)
(* (multiples of a common unit).                                           *)
(***************************************************************************)
Entry(k, v) == [key |-> k, val |-> v]

Keys(d) == {d[i].key : i \in 1..Len(d)}

\* list(qv_probs.values())
Values(d) == [i \in 1..Len(d) |-> d[i].val]

\* s with x inserted before the first element greater than x
RECURSIVE Insert(_, _)
Insert(s, x) ==
    IF s = << >> THEN <<x>>
    ELSE IF x <= Head(s) THEN <<x>> \o s
    ELSE <<Head(s)>> \o Insert(Tail(s), x)

RECURSIVE Sorted(_)
Sorted(s) == IF s = << >> THEN << >> ELSE Insert(Sorted(Tail(s)), Head(s))

\* the sum of the values a
RECURSIVE SumOf(_)
SumOf(a) == IF a = << >> THEN 0 ELSE Head(a) + SumOf(Tail(a))

\* Mutant: np.mean in place of np.median.  Twice the mean is kept rounded
\* down, which compares with twice a weight as the mean itself does.
MeanForMedian(a) ==
    IF Len(a) = 0 THEN [nan |-> TRUE, twice |-> 0]
    ELSE [nan |-> FALSE, twice |-> (2 * SumOf(a)) \div Len(a)]

\* np.median(a): nan for no values, the middle value of the sorted values
\* for an odd number of them and the mean of the two middle values for an
\* even number.  The median is kept as twice its value.
Median(a) ==
    LET s == Sorted(a)
        n == Len(s)
    IN  IF n = 0 THEN [nan |-> TRUE, twice |-> 0]
        ELSE IF n % 2 = 1 THEN [nan |-> FALSE, twice |-> 2 * s[(n + 1) \div 2]]
        ELSE [nan |-> FALSE, twice |-> s[n \div 2] + s[n \div 2 + 1]]

\* Mutant: >= in place of > .
AboveOrEqual(val, median_prob) == ~median_prob.nan /\ 2 * val >= median_prob.twice

\* val > median_prob (false when median_prob is nan)
Above(val, median_prob) == ~median_prob.nan /\ 2 * val > median_prob.twice

\* the loop "for key, val in qv_probs.items()" from entry i on
RECURSIVE HeavyLoop(_, _, _, _)
HeavyLoop(d, i, median_prob, heavy_strs) ==
    IF i > Len(d) THEN heavy_strs
    ELSE HeavyLoop(d, i + 1, median_prob,
                   IF Above(d[i].val, median_prob)
                   THEN Append(heavy_strs, Entry(d[i].key, 1))
                   ELSE heavy_strs)

heavy_projector(d) == HeavyLoop(d, 1, Median(Values(d)), << >>)

KeyPool == <<"00000", "00001", "00010", "00011", "00100", "00101", "00110">>

ProbDicts ==
    UNION {[1..n -> 0..MaxWeight] : n \in 0..MaxKeys}

DictOf(w) == [i \in 1..Len(w) |-> Entry(KeyPool[i], w[i])]

HeavyIdle ==
    /\ qv_probs = << >>
    /\ hp = [called |-> FALSE]
    /\ heavy_projectors = NoValue

\* One whole call heavy_projector(qv_probs).
CallHeavyProjector ==
    /\ ~hp.called
    /\ hp' = [called |-> TRUE,
              arg |-> qv_probs,
              median_prob |-> Median(Values(qv_probs)),
              heavy_strs |-> heavy_projector(qv_probs)]
    /\ UNCHANGED <<qv_probs, heavy_projectors, runnerVars, prog, expect,
                   nbVars, sessVars>>

(***************************************************************************)
(* The expectation value of a diagonal operator O = O_{N-1} ... O_0 on the *)
(* observed bitstrings b_m with probabilities p_m:                         *)
(*   <O> = sum_m p_m prod_n O_n[b_m[N-n-1], b_m[N-n-1]]                    *)
(* An operator is a string of I and Z, a bitstring a sequence of 0 and 1   *)
(* (both written left to right) and a probability a number of halves.      *)
(***************************************************************************)
\* the denominator of the probabilities
Halves == 2

\* Mutant: Z taken with diagonal (1, 1).
DiagonalElementNoSign(o, bit) == 1

\* the diagonal element O[bit, bit] of I and of Z
DiagonalElement(o, bit) ==
    IF o = "Z" THEN (IF bit = 0 THEN 1 ELSE -1) ELSE 1

\* prod_{n' = n}^{N-1} O_n'[b[N-n'-1], b[N-n'-1]]; O_n' is the character
\* N-n' of the string (counted from 1) and b[N-n'-1] the bit at the same
\* place
RECURSIVE DiagonalProduct(_, _, _)
DiagonalProduct(O, b, n) ==
    IF n > Len(O) - 1 THEN 1
    ELSE DiagonalElement(O[Len(O) - n], b[(Len(O) - n - 1) + 1])
            * DiagonalProduct(O, b, n + 1)

\* sum_{m' = m}^{M-1} p_m' prod_n ..., in halves
RECURSIVE ExpectationSum(_, _, _)
ExpectationSum(O, dist, m) ==
    IF m > Len(dist) - 1 THEN 0
    ELSE dist[m + 1].p * DiagonalProduct(O, dist[m + 1].b, 0)
            + ExpectationSum(O, dist, m + 1)

\* the ideal distribution of an N-qubit GHZ state, and the distributions of
\* the all-zeros and the all-ones basis state
GHZ(N) == <<[b |-> [i \in 1..N |-> 0], p |-> 1], [b |-> [i \in 1..N |-> 1], p |-> 1]>>
AllZeros(N) == <<[b |-> [i \in 1..N |-> 0], p |-> Halves]>>
AllOnes(N) == <<[b |-> [i \in 1..N |-> 1], p |-> Halves]>>

ExpectInputs ==
    UNION {[O : [1..N -> {"I", "Z"}], dist : {GHZ(N), AllZeros(N), AllOnes(N)}]
              : N \in 1..MaxQubits}

ExpectIdle == expect = [computed |-> FALSE]

\* One evaluation of the formula.
Evaluate ==
    /\ ~expect.computed
    /\ expect' = [computed |-> TRUE, O |-> expect.O, dist |-> expect.dist,
                  value |-> ExpectationSum(expect.O, expect.dist, 0)]
    /\ UNCHANGED <<runnerVars, prog, heavyVars, nbVars, sessVars>>

(***************************************************************************)
(* The custom expectation value notebook run cell by cell.  The kernel     *)
(* runs one cell at a time, in the order of the cells' execution counts;   *)
(* service.run returns a job handle at once and the service runs the       *)
(* uploaded program main on the job's inputs while the kernel goes on;     *)
(* job.result() blocks the kernel until the job is done.                   *)
(***************************************************************************)
\* the number of Quantum Volume circuits
N == 10

Cell(kind, name) == [kind |-> kind, name |-> name]

\* Mutant: job2 is submitted before job.result() is called.
NotebookCellsSubmitEarly ==
    <<Cell("define", "main"), Cell("define", "backend"), Cell("define", "qc"),
      Cell("local_main", "main"), Cell("define", "meta"),
      Cell("define", "service"), Cell("define", "program_id"),
      Cell("define", "delete_program"),
      Cell("define", "expectation_value_runner"),
      Cell("submit", "job"), Cell("define", "qc2"), Cell("submit", "job2"),
      Cell("result", "job"), Cell("result", "job2"),
      Cell("define", "heavy_projector"), Cell("define", "qv_circs"),
      Cell("heavy_projectors", "heavy_projectors"), Cell("define", "circs"),
      Cell("define", "backend"), Cell("submit", "job3"),
      Cell("result", "job3"), Cell("define", "passed"),
      Cell("define", "qiskit_copyright")>>

\* the code cells in the order of their execution counts (1..12, 14..24)
NotebookCells ==
    <<Cell("define", "main"), Cell("define", "backend"), Cell("define", "qc"),
      Cell("local_main", "main"), Cell("define", "meta"),
      Cell("define", "service"), Cell("define", "program_id"),
      Cell("define", "delete_program"),
      Cell("define", "expectation_value_runner"),
      Cell("submit", "job"), Cell("result", "job"),
      Cell("define", "qc2"), Cell("submit", "job2"), Cell("result", "job2"),
      Cell("define", "heavy_projector"), Cell("define", "qv_circs"),
      Cell("heavy_projectors", "heavy_projectors"), Cell("define", "circs"),
      Cell("define", "backend"), Cell("submit", "job3"),
      Cell("result", "job3"), Cell("define", "passed"),
      Cell("define", "qiskit_copyright")>>

\* the names each cell binds when it runs to its end (imports, def and
\* assignments), cell by cell as in NotebookCells; the names that
\* "from qiskit.tools.jupyter import *" brings in are not listed
CellBinds ==
    <<{"mthree", "transpile", "main"},
      {"QuantumCircuit", "FakeSantiago", "UserMessenger", "msg", "backend"},
      {"qc"},
      {},
      {"meta"},
      {"QiskitRuntimeService", "service"},
      {"program_id"},
      {},
      {"expectation_value_runner"},
      {"backend", "all_zeros_proj", "all_ones_proj", "job"},
      {},
      {"qc2"},
      {"all_zeros_proj", "all_ones_proj", "job2"},
      {},
      {"heavy_projector"},
      {"np", "Statevector", "QuantumVolume", "N", "qv_circs"},
      {"ideal_probs", "heavy_projectors"},
      {"circs"},
      {"backend"},
      {"job3"},
      {"qv_scores"},
      {},
      {}>>

\* name is bound by a cell run so far: a job name only if the call returned
\* a job, and the name assigned from job.result() only if result() returned
\* a value
Defined(name) ==
    \E i \in 1..(cell - 1) :
        /\ name \in CellBinds[i]
        /\ (NotebookCells[i].kind = "submit" /\ name = NotebookCells[i].name) =>
               jobs[name].status # "NONE"
        /\ NotebookCells[i].kind = "result" =>
               jobs[NotebookCells[i].name].status = "DONE"

JobNames == {"job", "job2", "job3"}

\* qc, qc2 and the measured Quantum Volume circuits circs
qc == Circuit(1)
qc2 == Circuit(2)
circs == List([i \in 1..N |-> Circuit(10 + i)])

\* The ideal probabilities of a Quantum Volume circuit, as
\* Statevector.from_instruction(circ).probabilities_dict() gives them: the
\* circuits are random, so each circuit has one of these dictionaries.
IdealProbDicts == {DictOf(<<3, 1, 2, 0>>), DictOf(<<1, 1, 2, 2, 0>>)}

\* the local test of main on the fake backend
LocalTestArgs ==
    [backend |-> BackendObj("fake_santiago"),
     circuits |-> Single(qc),
     expectation_operators |-> List(<<"ZZZZ", "IIII", "IZZZ">>),
     shots |-> DefaultShots,
     transpiler_config |-> SabreConfig,
     run_config |-> EmptyDict,
     skip_transpilation |-> FALSE,
     return_stddev |-> FALSE,
     use_measurement_mitigation |-> TRUE]

\* the arguments of the three calls of expectation_value_runner
SubmitArgs(name) ==
    LET defaults ==
            [backend |-> BackendStr("ibmq_qasm_simulator"),
             circuits |-> Single(qc),
             expectation_operators |-> DefaultOperators,
             shots |-> DefaultShots,
             transpiler_config |-> EmptyDict,
             run_config |-> EmptyDict,
             skip_transpilation |-> FALSE,
             return_stddev |-> FALSE,
             use_measurement_mitigation |-> FALSE]
    IN  IF name = "job"
        THEN [defaults EXCEPT
                 !.expectation_operators =
                     List(<<"{'0000': 1}", "{'1111': 1}", "ZZZZ">>)]
        ELSE IF name = "job2"
        THEN [defaults EXCEPT
                 !.circuits = Single(qc2),
                 !.expectation_operators =
                     List(<<"{'000': 1}", "{'111': 1}", "ZZZ">>)]
        ELSE [defaults EXCEPT
                 !.backend = BackendStr("ibmq_manila"),
                 !.circuits = circs,
                 !.expectation_operators = heavy_projectors,
                 !.transpiler_config = SabreConfig]

\* the arguments main is started with for a job: the backend named in the
\* options and the job's inputs
ProgramArgs(handle) ==
    [backend |-> BackendObj(handle.options.backend_name),
     circuits |-> handle.inputs.circuits,
     expectation_operators |-> handle.inputs.expectation_operators,
     shots |-> handle.inputs.shots,
     transpiler_config |-> handle.inputs.transpiler_config,
     run_config |-> handle.inputs.run_config,
     skip_transpilation |-> handle.inputs.skip_transpilation,
     return_stddev |-> handle.inputs.return_stddev,
     use_measurement_mitigation |-> handle.inputs.use_measurement_mitigation]

NoJobYet == [status |-> "NONE", returned |-> FALSE]

NotebookIdle ==
    /\ cell = 1
    /\ jobs = [j \in JobNames |-> NoJobYet]
    /\ waiting = "none"
    /\ owner = "none"

KernelFree == waiting = "none" /\ owner # "local"

NextCell(kind) ==
    /\ cell <= Len(NotebookCells)
    /\ KernelFree
    /\ NotebookCells[cell].kind = kind

\* a cell that only defines names
RunDefineCell ==
    /\ NextCell("define")
    /\ cell' = cell + 1
    /\ UNCHANGED <<jobs, waiting, owner, runnerVars, prog, heavyVars, expect,
                   sessVars>>

\* the cell "ideal_probs = [...]; heavy_projectors = [heavy_projector(probs)
\* for probs in ideal_probs]": heavy_projector is called once for each of the
\* N circuits, in order, and the last call is the one on ideal_probs[N-1]
RunHeavyProjectorsCell ==
    /\ NextCell("heavy_projectors")
    /\ \E ideal_probs \in [1..N -> IdealProbDicts] :
          /\ heavy_projectors' =
                 List([i \in 1..N |-> heavy_projector(ideal_probs[i])])
          /\ qv_probs' = ideal_probs[N]
          /\ hp' = [called |-> TRUE,
                    arg |-> ideal_probs[N],
                    median_prob |-> Median(Values(ideal_probs[N])),
                    heavy_strs |-> heavy_projector(ideal_probs[N])]
    /\ cell' = cell + 1
    /\ UNCHANGED <<jobs, waiting, owner, runnerVars, prog, expect, sessVars>>

\* the cell that calls main locally: the kernel enters main
RunLocalMainCell ==
    /\ NextCell("local_main")
    /\ owner = "none"
    /\ prog.pc = "idle"
    /\ prog' = MainEntry(LocalTestArgs)
    /\ owner' = "local"
    /\ UNCHANGED <<cell, jobs, waiting, runnerVars, heavyVars, expect, sessVars>>

\* main returns to the cell that called it
LocalMainReturns ==
    /\ owner = "local"
    /\ prog.pc = "done"
    /\ prog' = [pc |-> "idle"]
    /\ owner' = "none"
    /\ cell' = cell + 1
    /\ UNCHANGED <<jobs, waiting, runnerVars, heavyVars, expect, sessVars>>

\* a cell "job = expectation_value_runner(...)"
RunSubmitCell ==
    /\ NextCell("submit")
    /\ RunnerCall(SubmitArgs(NotebookCells[cell].name))
    /\ jobs' = IF runner'.submitted
               THEN [jobs EXCEPT ![NotebookCells[cell].name] =
                        [status |-> "QUEUED", returned |-> FALSE,
                         handle |-> runner'.result, result |-> NoValue]]
               ELSE jobs
    /\ cell' = cell + 1
    /\ UNCHANGED <<waiting, owner, prog, heavyVars, expect, sessVars>>

\* a cell "job.result()": the call is made and blocks
CallResult ==
    /\ NextCell("result")
    /\ jobs[NotebookCells[cell].name].status # "NONE"
    /\ waiting' = NotebookCells[cell].name
    /\ UNCHANGED <<cell, jobs, owner, runnerVars, prog, heavyVars, expect,
                   sessVars>>

\* job.result() returns, or raises for a failed job, once the job has ended
ResultReturns ==
    /\ waiting # "none"
    /\ jobs[waiting].status \in {"DONE", "ERROR"}
    /\ jobs' = [jobs EXCEPT ![waiting].returned = TRUE]
    /\ waiting' = "none"
    /\ cell' = cell + 1
    /\ UNCHANGED <<owner, runnerVars, prog, heavyVars, expect, sessVars>>

\* the service starts a queued job: main is entered on the job's inputs
JobStarts ==
    /\ owner = "none"
    /\ prog.pc = "idle"
    /\ \E j \in JobNames :
          /\ jobs[j].status = "QUEUED"
          /\ jobs' = [jobs EXCEPT ![j].status = "RUNNING"]
          /\ owner' = j
          /\ prog' = MainEntry(ProgramArgs(jobs[j].handle))
    /\ UNCHANGED <<cell, waiting, runnerVars, heavyVars, expect, sessVars>>

\* main has returned: the job is done and holds the returned value
JobCompletes ==
    /\ owner \in JobNames
    /\ prog.pc = "done"
    /\ jobs' = [jobs EXCEPT ![owner].status = "DONE",
                            ![owner].result = prog.retval]
    /\ owner' = "none"
    /\ prog' = [pc |-> "idle"]
    /\ UNCHANGED <<cell, waiting, runnerVars, heavyVars, expect, sessVars>>

\* the running job fails on the service
JobFails ==
    /\ owner \in JobNames
    /\ prog.pc # "done"
    /\ jobs' = [jobs EXCEPT ![owner].status = "ERROR"]
    /\ owner' = "none"
    /\ prog' = [pc |-> "idle"]
    /\ UNCHANGED <<cell, waiting, runnerVars, heavyVars, expect, sessVars>>

(***************************************************************************)
(* The Estimator tutorial: one cell that opens a session with              *)
(* "with Estimator(...) as estimator", calls estimator five times and      *)
(* leaves the with block.  The Estimator itself is modelled from its       *)
(* description: a session that is open inside the with block and closed    *)
(* on leaving it, and a call that returns one value and one metadata entry *)
(* per (circuit, observable, parameter) tuple, in the order given.         *)
(***************************************************************************)
\* a circuit or observable passed by index or as the object itself
Idx(i) == [byIndex |-> TRUE, index |-> i, obj |-> ""]
Obj(o) == [byIndex |-> FALSE, index |-> 0, obj |-> o]

Stmt(op, target, circuits, observables, parameter_values) ==
    [op |-> op, target |-> target, circuits |-> circuits,
     observables |-> observables, parameter_values |-> parameter_values]

\* the circuits and observables the session is opened with
SessionCircuits == <<"psi1", "psi2">>
SessionObservables == <<"H1", "H2", "H3">>

\* Mutant: one more estimator call after the with block is left.
SessionProgramCallAfterExit ==
    <<Stmt("enter", "estimator", << >>, << >>, << >>),
      Stmt("call", "psi1_H1_result", <<Idx(0)>>, <<Idx(0)>>, <<"theta1">>),
      Stmt("exit", "estimator", << >>, << >>, << >>),
      Stmt("call", "psi2_H2_result", <<Idx(1)>>, <<Idx(1)>>, <<"theta2">>)>>

\* the statements of the cell that use the session
SessionProgram ==
    <<Stmt("enter", "estimator", << >>, << >>, << >>),
      Stmt("call", "psi1_H1_result", <<Idx(0)>>, <<Idx(0)>>, <<"theta1">>),
      Stmt("call", "psi1_H23_result", <<Obj("psi1"), Obj("psi1")>>,
           <<Obj("H2"), Obj("H3")>>, <<"theta1", "theta1">>),
      Stmt("call", "psi2_H2_result", <<Idx(1)>>, <<Idx(1)>>, <<"theta2">>),
      Stmt("call", "psi1_H1_result2", <<Idx(0), Idx(0)>>, <<Idx(0), Idx(0)>>,
           <<"theta1", "theta3">>),
      Stmt("call", "psi12_H23_result", <<Idx(0), Idx(1), Idx(0)>>,
           <<Idx(0), Idx(1), Idx(2)>>, <<"theta1", "theta2", "theta3">>),
      Stmt("exit", "estimator", << >>, << >>, << >>)>>

\* the numbers of values and of metadata entries of the five printed results
PrintedResults ==
    <<[values |-> 1, metadata |-> 1], [values |-> 2, metadata |-> 2],
      [values |-> 1, metadata |-> 1], [values |-> 2, metadata |-> 2],
      [values |-> 3, metadata |-> 3]>>

\* the shots of every printed metadata entry
PrintedShots == 1024

\* the object a reference stands for
Resolve(ref, pool) == IF ref.byIndex THEN pool[ref.index + 1] ELSE ref.obj

\* what the estimate of one tuple is an estimate of; sample stands for the
\* outcome of the shots
Estimate(circuit, observable, parameters, sample) ==
    [circuit |-> Resolve(circuit, SessionCircuits),
     observable |-> Resolve(observable, SessionObservables),
     parameters |-> parameters,
     sample |-> sample]

\* Mutant: the values come back in reverse order.
EstimatorResultReversed(circuits, observables, parameter_values, samples) ==
    LET n == Len(circuits)
    IN  [values |-> [i \in 1..n |->
                        Estimate(circuits[n + 1 - i], observables[n + 1 - i],
                                 parameter_values[n + 1 - i], samples[i])],
         metadata |-> [i \in 1..n |->
                          [variance |-> samples[i], shots |-> PrintedShots]]]

\* estimator(circuits, observables, parameter_values)
EstimatorResult(circuits, observables, parameter_values, samples) ==
    [values |-> [i \in 1..Len(circuits) |->
                    Estimate(circuits[i], observables[i], parameter_values[i],
                             samples[i])],
     metadata |-> [i \in 1..Len(circuits) |->
                      [variance |-> samples[i], shots |-> PrintedShots]]]

SessionIdle ==
    /\ session = "none"
    /\ stmt = 1
    /\ results = << >>
    /\ events = << >>

NextStmt(op) ==
    /\ stmt <= Len(SessionProgram)
    /\ SessionProgram[stmt].op = op

\* "with Estimator(...) as estimator:" is entered
EnterSession ==
    /\ NextStmt("enter")
    /\ session' = "open"
    /\ events' = Append(events, "open")
    /\ stmt' = stmt + 1
    /\ UNCHANGED <<results, runnerVars, prog, heavyVars, expect, nbVars>>

\* "result = estimator(...)": the result is bound when the session is open
CallEstimator ==
    /\ NextStmt("call")
    /\ LET s == SessionProgram[stmt]
       IN  IF session = "open"
           THEN \E samples \in [1..Len(s.circuits) -> 1..MaxSample] :
                    results' = Append(results,
                        [target |-> s.target, stmt |-> stmt,
                         result |-> EstimatorResult(s.circuits, s.observables,
                                        s.parameter_values, samples)])
           ELSE results' = results
    /\ events' = Append(events, "call")
    /\ stmt' = stmt + 1
    /\ UNCHANGED <<session, runnerVars, prog, heavyVars, expect, nbVars>>

\* the with block is left
ExitSession ==
    /\ NextStmt("exit")
    /\ session' = "closed"
    /\ events' = Append(events, "close")
    /\ stmt' = stmt + 1
    /\ UNCHANGED <<results, runnerVars, prog, heavyVars, expect, nbVars>>

(***************************************************************************)
(* Specifications.                                                         *)
(***************************************************************************)
MainIdle == prog = [pc |-> "idle"]

AllIdle ==
    /\ RunnerIdle /\ MainIdle /\ HeavyIdle /\ ExpectIdle
    /\ NotebookIdle /\ SessionIdle

\* calls of expectation_value_runner on arguments drawn from bounded sets
InitRunner == AllIdle
NextRunner == CallRunner
SpecRunner == InitRunner /\ [][NextRunner]_vars

\* one invocation of main on arguments drawn from bounded sets
InitMain == AllIdle
NextMain ==
    \/ MainEnter
    \/ MainTranspile
    \/ MainDuplicateFlag
    \/ MainCalibrate
    \/ MainRun
    \/ MainResult
    \/ MainEvaluate
SpecMain == InitMain /\ [][NextMain]_vars

\* heavy_projector on a dictionary drawn from a bounded set
InitHeavy ==
    /\ RunnerIdle /\ MainIdle /\ ExpectIdle /\ NotebookIdle /\ SessionIdle
    /\ \E w \in ProbDicts : qv_probs = DictOf(w)
    /\ hp = [called |-> FALSE]
    /\ heavy_projectors = NoValue
NextHeavy == CallHeavyProjector
SpecHeavy == InitHeavy /\ [][NextHeavy]_vars

\* the formula on an operator and a distribution drawn from bounded sets
InitExpect ==
    /\ RunnerIdle /\ MainIdle /\ HeavyIdle /\ NotebookIdle /\ SessionIdle
    /\ \E e \in ExpectInputs :
           expect = [computed |-> FALSE, O |-> e.O, dist |-> e.dist]
NextExpect == Evaluate
SpecExpect == InitExpect /\ [][NextExpect]_vars

\* the custom expectation value notebook, its jobs and the program they run
InitNotebook == AllIdle
NextNotebook ==
    \/ RunDefineCell
    \/ RunHeavyProjectorsCell
    \/ RunLocalMainCell
    \/ LocalMainReturns
    \/ RunSubmitCell
    \/ CallResult
    \/ ResultReturns
    \/ JobStarts
    \/ JobCompletes
    \/ JobFails
    \/ MainTranspile
    \/ MainDuplicateFlag
    \/ MainCalibrate
    \/ MainRun
    \/ MainResult
    \/ MainEvaluate
SpecNotebook == InitNotebook /\ [][NextNotebook]_vars

\* the session cell of the Estimator tutorial
InitSession == AllIdle
NextSession ==
    \/ EnterSession
    \/ CallEstimator
    \/ ExitSession
SpecSession == InitSession /\ [][NextSession]_vars

(***************************************************************************)
(* Specification SpecFrame: expectation_value_runner and main called again *)
(* and again by a caller that keeps its objects, with the dictionaries     *)
(* passed or left out.  The routines main calls (transpile, backend.run,   *)
(* mthree) are taken not to write to their arguments.                      *)
(***************************************************************************)
ConfigParameters == {"transpiler_config", "run_config"}

FrameArgs ==
    [circuits : {Single(Circuit(1)), CircuitList(2), CircuitList(MaxLen)},
     expectation_operators : {OperatorList(1), OperatorList(MaxLen)},
     omitted : {{}, ConfigParameters},
     skip_transpilation : BOOLEAN]

\* the arguments of a call: a dictionary that is left out is the default
\* object of the function called, with what it holds now
FrameCallArgs(r, backend, defaults) ==
    [backend |-> backend,
     circuits |-> r.circuits,
     expectation_operators |-> r.expectation_operators,
     shots |-> DefaultShots,
     transpiler_config |-> IF "transpiler_config" \in r.omitted
                           THEN defaults.transpiler_config ELSE SabreConfig,
     run_config |-> IF "run_config" \in r.omitted
                    THEN defaults.run_config ELSE SomeRunConfig,
     skip_transpilation |-> r.skip_transpilation,
     return_stddev |-> FALSE,
     use_measurement_mitigation |-> FALSE,
     omitted |-> r.omitted]

\* a call of expectation_value_runner
FrameCallRunner ==
    /\ \E r \in FrameArgs :
          RunnerCall(FrameCallArgs(r, BackendStr("ibmq_qasm_simulator"),
                                   RunnerDefaults))
    /\ UNCHANGED <<prog, heavyVars, expect, nbVars, sessVars>>

\* a call of main, the first or one after main has returned
FrameMainEnter ==
    /\ prog.pc \in {"idle", "done"}
    /\ \E r \in FrameArgs :
          prog' = MainEntry(FrameCallArgs(r, BackendObj("fake_santiago"),
                                          MainDefaultDicts))
    /\ UNCHANGED <<runnerVars, heavyVars, expect, nbVars, sessVars>>

InitFrame == AllIdle
NextFrame ==
    \/ FrameCallRunner
    \/ FrameMainEnter
    \/ MainTranspile
    \/ MainDuplicateFlag
    \/ MainCalibrate
    \/ MainRun
    \/ MainResult
    \/ MainEvaluate
SpecFrame == InitFrame /\ [][NextFrame]_vars

(***************************************************************************)
(* Claims about expectation_value_runner (specification SpecRunner).       *)
(***************************************************************************)
\* the number of circuits and of expectation operators a call supplies: a
\* single circuit or operator counts as one
NumCircuits(a) == IF IsList(a.circuits) THEN PyLen(a.circuits) ELSE 1
NumOperators(a) ==
    IF IsList(a.expectation_operators) THEN PyLen(a.expectation_operators) ELSE 1

\* C1 as stated: every call in which the number of supplied circuits differs
\* from the number of supplied expectation operators raises ValueError.
C1_MismatchAlwaysRaises ==
    (runner.called /\ NumCircuits(runner.args) # NumOperators(runner.args))
        => runner.raised

\* C1 amended: every call in which circuits is a list of n # 1 circuits,
\* expectation_operators is a list of m # 1 operators and n # m raises
\* ValueError.
C1_MismatchOfListsRaises ==
    (/\ runner.called
     /\ IsList(runner.args.circuits)
     /\ IsList(runner.args.expectation_operators)
     /\ PyLen(runner.args.circuits) # 1
     /\ PyLen(runner.args.expectation_operators) # 1
     /\ PyLen(runner.args.circuits) # PyLen(runner.args.expectation_operators))
        => runner.raised

\* C1 witness: a call with a list of three circuits and an empty list of
\* operators has raised.
C1_Witness ==
    /\ runner.called
    /\ IsList(runner.args.circuits)
    /\ IsList(runner.args.expectation_operators)
    /\ PyLen(runner.args.circuits) = 3
    /\ PyLen(runner.args.expectation_operators) = 0
    /\ runner.raised

\* C9: a call with a list of more than one circuit and a list of more than
\* one expectation operator raises ValueError if and only if the two lists
\* have different lengths.
C9_RaisesIffLengthsDiffer ==
    (/\ runner.called
     /\ IsList(runner.args.circuits)
     /\ IsList(runner.args.expectation_operators)
     /\ PyLen(runner.args.circuits) > 1
     /\ PyLen(runner.args.expectation_operators) > 1)
        => (runner.raised <=>
              PyLen(runner.args.circuits) # PyLen(runner.args.expectation_operators))

\* C9 witness: a call with three circuits and two operators has raised.
C9_Witness ==
    /\ runner.called
    /\ IsList(runner.args.circuits)
    /\ IsList(runner.args.expectation_operators)
    /\ PyLen(runner.args.circuits) = 3
    /\ PyLen(runner.args.expectation_operators) = 2
    /\ runner.raised
    /\ ~runner.submitted

(***************************************************************************)
(* Claims about main (specification SpecMain).                             *)
(***************************************************************************)
MainEntered == prog.pc # "idle"
MainDone == prog.pc = "done"

\* the one logged call of fn (when there is exactly one)
TheCall(fn) == prog.calls[CHOOSE i \in CallsOf(prog.calls, fn) : TRUE]

\* a single circuit wrapped in a one-element list; a list as it is
AsList(v) == IF IsList(v) THEN v ELSE List(<<v.items[1]>>)

\* C6: when skip_transpilation is True transpile is never called and
\* backend.run receives exactly the supplied circuits (a single circuit
\* wrapped in a one-element list); when it is False transpile is called
\* exactly once, on the supplied circuits with the given backend and
\* transpiler_config, before backend.run, and backend.run receives its output
\* (the list transpile returned, or the one circuit it returned as a list).
C6_TranspileOnlyUnlessSkipped ==
    MainEntered =>
        LET t == CallsOf(prog.calls, "transpile")
            r == CallsOf(prog.calls, "backend.run")
        IN  IF prog.args.skip_transpilation
            THEN /\ t = {}
                 /\ \A i \in r :
                       prog.calls[i].args[1] = AsList(prog.args.circuits)
            ELSE /\ Cardinality(t) <= 1
                 /\ prog.pc # "transpile" => Cardinality(t) = 1
                 /\ \A i \in t :
                       prog.calls[i].args =
                           <<prog.args.circuits, prog.args.backend,
                             prog.args.transpiler_config>>
                 /\ \A i \in r :
                       /\ \E j \in t : j < i
                       /\ \A j \in t :
                             prog.calls[i].args[1] = AsList(prog.calls[j].out)

\* C6 witness: a finished run that transpiled a list of one circuit with a
\* transpiler_config, got the circuit itself back and ran it as a list.
C6_Witness ==
    /\ MainDone
    /\ ~prog.args.skip_transpilation
    /\ prog.args.transpiler_config # EmptyDict
    /\ IsList(prog.args.circuits)
    /\ ~IsList(TheCall("transpile").out)
    /\ TheCall("backend.run").args[1] = List(<<Transpiled(Circuit(1))>>)

\* C7: main returns the result of an expval_and_stddev routine if and only
\* if return_stddev is True and the result of an expval routine otherwise,
\* with and without measurement mitigation.
C7_StddevIffRequested ==
    MainDone =>
        /\ prog.retval.routine \in {"expval", "expval_and_stddev"}
        /\ prog.retval.routine = "expval_and_stddev" <=> prog.args.return_stddev

\* C7 witness: a finished mitigated run that returned standard deviations.
C7_Witness ==
    /\ MainDone
    /\ prog.args.use_measurement_mitigation
    /\ prog.args.return_stddev
    /\ prog.retval.routine = "expval_and_stddev"

\* the distributions the returned values were computed from
ReturnedDists == prog.retval.dists.items

MitigatorCalls ==
    CallsOf(prog.calls, "final_measurement_mapping")
        \cup CallsOf(prog.calls, "M3Mitigation")
        \cup CallsOf(prog.calls, "cals_from_system")
        \cup CallsOf(prog.calls, "apply_correction")

\* C8: with use_measurement_mitigation the returned values are computed from
\* the quasi-probabilities apply_correction produced from the raw counts of
\* backend.run, never from the raw counts; without it no mitigator is built,
\* calibrated or applied and the returned values are computed from the raw
\* counts.
C8_MitigationDecidesTheDistributions ==
    /\ (MainEntered /\ ~prog.args.use_measurement_mitigation) =>
           /\ MitigatorCalls = {}
           /\ ~prog.mit.built /\ ~prog.mit.calibrated
    /\ MainDone =>
           LET ran == TheCall("get_counts").out
           IN  IF prog.args.use_measurement_mitigation
               THEN /\ Cardinality(CallsOf(prog.calls, "apply_correction")) = 1
                    /\ TheCall("apply_correction").args[1] = ran
                    /\ \A i \in 1..Len(ReturnedDists) :
                          /\ ReturnedDists[i] \in
                                Range(TheCall("apply_correction").out.items)
                          /\ ReturnedDists[i].kind = "quasi"
                          /\ ReturnedDists[i].counts \in Range(ran.items)
               ELSE \A i \in 1..Len(ReturnedDists) :
                          /\ ReturnedDists[i].kind = "counts"
                          /\ ReturnedDists[i] \in Range(ran.items)

\* C8 witness: a finished mitigated run whose values come from corrected
\* counts.
C8_Witness ==
    /\ MainDone
    /\ prog.args.use_measurement_mitigation
    /\ prog.mit.calibrated
    /\ Len(ReturnedDists) > 0
    /\ ReturnedDists[1].kind = "quasi"

(***************************************************************************)
(* Claims about heavy_projector (specification SpecHeavy).                 *)
(***************************************************************************)
\* the k-th smallest of the values a, by counting: fewer than k values are
\* smaller and at least k are not greater
OrderStatistic(a, k) ==
    CHOOSE v \in Range(a) :
        /\ Cardinality({i \in 1..Len(a) : a[i] < v}) < k
        /\ Cardinality({i \in 1..Len(a) : a[i] <= v}) >= k

\* twice the median of the values a (a not empty)
TwiceMedian(a) ==
    OrderStatistic(a, (Len(a) + 1) \div 2) + OrderStatistic(a, Len(a) \div 2 + 1)

\* C2: heavy_projector(qv_probs) returns a dictionary whose key set is
\* exactly the set of bitstrings of qv_probs whose probability is strictly
\* greater than the median of all probabilities, and every returned value
\* is 1.
C2_HeavySetIsAboveMedian ==
    hp.called =>
        /\ Keys(hp.heavy_strs) =
               {hp.arg[i].key : i \in
                   {j \in 1..Len(hp.arg) :
                       2 * hp.arg[j].val > TwiceMedian(Values(hp.arg))}}
        /\ \A i \in 1..Len(hp.heavy_strs) : hp.heavy_strs[i].val = 1
        /\ Cardinality(Keys(hp.heavy_strs)) = Len(hp.heavy_strs)

\* C2 witness: a dictionary of four entries whose two middle probabilities
\* differ, with some entries kept and some dropped, one of them equal to
\* the lower middle value.
C2_Witness ==
    /\ hp.called
    /\ Len(hp.arg) = 4
    /\ hp.median_prob.twice % 2 = 1
    /\ Len(hp.heavy_strs) = 2
    /\ \E i \in 1..4 : 2 * hp.arg[i].val + 1 = hp.median_prob.twice

(***************************************************************************)
(* Claims about the diagonal-operator formula (specification SpecExpect).  *)
(***************************************************************************)
NumberOfZ(O) == Cardinality({i \in 1..Len(O) : O[i] = "Z"})

\* the value (in halves) the formula gave for operator O on the GHZ
\* distribution, when that is what was evaluated
GaveOnGHZ(O, v) ==
    (expect.computed /\ expect.O = O /\ expect.dist = GHZ(Len(O)))
        => expect.value = v

\* C10: on the ideal distribution of an N-qubit GHZ state the formula gives 1
\* for a string of I and Z with an even number of Z's and 0 for one with an
\* odd number; ZZZZ and IIII give 1 and IZZZ gives 0 on 4 qubits, ZZZ gives
\* 0 on 3 qubits.
C10_GHZParity ==
    /\ (expect.computed /\ expect.dist = GHZ(Len(expect.O))) =>
           expect.value = IF NumberOfZ(expect.O) % 2 = 0 THEN 1 * Halves ELSE 0
    /\ GaveOnGHZ(<<"Z", "Z", "Z", "Z">>, 1 * Halves)
    /\ GaveOnGHZ(<<"I", "I", "I", "I">>, 1 * Halves)
    /\ GaveOnGHZ(<<"I", "Z", "Z", "Z">>, 0)
    /\ GaveOnGHZ(<<"Z", "Z", "Z">>, 0)

\* C10 witness: IZZZ evaluated on the 4-qubit GHZ distribution gave 0.
C10_Witness ==
    /\ expect.computed
    /\ expect.O = <<"I", "Z", "Z", "Z">>
    /\ expect.dist = GHZ(4)
    /\ expect.value = 0

(***************************************************************************)
(* Claims about the notebook's jobs (specification SpecNotebook).          *)
(***************************************************************************)
Submitted(j) == jobs[j].status # "NONE"

\* the jobs submitted whose result() call has not returned yet
Outstanding == {j \in JobNames : Submitted(j) /\ ~jobs[j].returned}

\* C3: each job returned by expectation_value_runner has its blocking
\* result() call return before the next job is submitted, so at no point is
\* more than one job of the notebook outstanding.
C3_OneJobOutstanding ==
    /\ Cardinality(Outstanding) <= 1
    /\ \A j, k \in JobNames :
          (Submitted(j) /\ Submitted(k)
             /\ jobs[j].handle.job_id < jobs[k].handle.job_id)
              => jobs[j].returned

\* C3 witness: job2 has been submitted and is running while the kernel
\* blocks in job2.result(); job.result() has returned.
C3_Witness ==
    /\ jobs["job"].returned
    /\ jobs["job"].status = "DONE"
    /\ jobs["job2"].status = "RUNNING"
    /\ waiting = "job2"
    /\ Outstanding = {"job2"}

(***************************************************************************)
(* Claims about the Estimator session (specification SpecSession).         *)
(***************************************************************************)
\* C4: an estimator call with three lists of equal length n returns exactly
\* n values and n metadata entries, each with a variance and a shot count,
\* and the i-th value is the one for the i-th (circuit, observable,
\* parameter) tuple of the call; the numbers of values and metadata entries
\* are those of the results the notebook printed.
C4_ResultsAlignWithTuples ==
    \A k \in 1..Len(results) :
        LET s == SessionProgram[results[k].stmt]
            r == results[k].result
            n == Len(s.circuits)
        IN  (Len(s.observables) = n /\ Len(s.parameter_values) = n) =>
                /\ Len(r.values) = n
                /\ Len(r.metadata) = n
                /\ \A i \in 1..n :
                      /\ r.values[i].circuit = Resolve(s.circuits[i], SessionCircuits)
                      /\ r.values[i].observable =
                             Resolve(s.observables[i], SessionObservables)
                      /\ r.values[i].parameters = s.parameter_values[i]
                      /\ DOMAIN r.metadata[i] = {"variance", "shots"}
                /\ Len(r.values) = PrintedResults[k].values
                /\ Len(r.metadata) = PrintedResults[k].metadata

\* C4 witness: the last call, on three tuples given by index, has returned
\* three values, the second for (psi2, H2, theta2).
C4_Witness ==
    /\ Len(results) = 5
    /\ results[5].target = "psi12_H23_result"
    /\ Len(results[5].result.values) = 3
    /\ results[5].result.values[2].circuit = "psi2"
    /\ results[5].result.values[2].observable = "H2"
    /\ results[5].result.values[2].parameters = "theta2"
    /\ results[2].result.values[2].observable = "H3"

EventsOf(e) == {i \in 1..Len(events) : events[i] = e}

SessionCellDone == stmt > Len(SessionProgram)

\* C5: every estimator call of the tutorial is made while the session opened
\* by "with Estimator(...)" is open; once the last call has returned and the
\* with block is left the session is closed, and it is never used or
\* reopened afterwards.
C5_SessionOpenForEveryCall ==
    /\ \A c \in EventsOf("call") :
          /\ \E o \in EventsOf("open") : o < c
          /\ \A x \in EventsOf("close") : c < x
    /\ \A o \in EventsOf("open") : \A x \in EventsOf("close") : o < x
    /\ Cardinality(EventsOf("open")) <= 1
    /\ (session = "closed") <=> (EventsOf("close") # {})
    /\ SessionCellDone =>
          /\ session = "closed"
          /\ events[Len(events)] = "close"
          /\ Len(results) = Cardinality(EventsOf("call"))

\* C5 witness: the cell has finished, the five calls have returned and the
\* session is closed.
C5_Witness ==
    /\ SessionCellDone
    /\ session = "closed"
    /\ Len(results) = 5
    /\ Cardinality(EventsOf("call")) = 5

(***************************************************************************)
(* Further claims about main (specification SpecMain).                     *)
(***************************************************************************)
\* the distributions of the circuits that were run, before any replication:
\* the output of apply_correction with mitigation, the counts of backend.run
\* without
ComputedDists ==
    IF prog.args.use_measurement_mitigation
    THEN TheCall("apply_correction").out
    ELSE TheCall("get_counts").out

\* C11: when main runs exactly one circuit and expectation_operators is a
\* list of k >= 1 operators, the expectation routine receives a list of
\* exactly k distributions, each of them the counts (with mitigation the
\* quasi-distribution) of the one circuit; when more than one circuit is
\* run, or expectation_operators is not a list, the routine receives the
\* distributions as they were computed.
C11_OneCircuitReplicatedPerOperator ==
    MainDone =>
        LET ran == TheCall("backend.run").args[1]
            ops == prog.args.expectation_operators
        IN  /\ prog.retval.ops = ops
            /\ (PyLen(ran) = 1 /\ IsList(ops) /\ PyLen(ops) >= 1) =>
                   /\ IsList(prog.retval.dists)
                   /\ PyLen(prog.retval.dists) = PyLen(ops)
                   /\ ~IsList(ComputedDists)
                   /\ \A i \in 1..PyLen(ops) :
                         prog.retval.dists.items[i] = ComputedDists.items[1]
            /\ (PyLen(ran) > 1 \/ ~IsList(ops)) =>
                   prog.retval.dists = ComputedDists

\* C11 witness: finished runs of one circuit with a list of one operator and
\* mitigation, whose routine received a list of one quasi-distribution.
C11_Witness ==
    /\ MainDone
    /\ prog.args.use_measurement_mitigation
    /\ PyLen(TheCall("backend.run").args[1]) = 1
    /\ IsList(prog.args.expectation_operators)
    /\ PyLen(prog.args.expectation_operators) = 1
    /\ prog.retval.dists = List(<<TheCall("apply_correction").out.items[1]>>)

(***************************************************************************)
(* Further claims about expectation_value_runner (specification            *)
(* SpecRunner).                                                            *)
(***************************************************************************)
\* C12: a call with a list of n # 1 circuits and a list of exactly one
\* expectation operator raises no error, and the expectation_operators
\* entry of the inputs sent to the program is the list of that operator
\* repeated n times.
C12_SingleOperatorBroadcast ==
    (/\ runner.called
     /\ IsList(runner.args.circuits)
     /\ PyLen(runner.args.circuits) # 1
     /\ IsList(runner.args.expectation_operators)
     /\ PyLen(runner.args.expectation_operators) = 1)
        => /\ ~runner.raised
           /\ runner.submitted
           /\ runner.result.inputs.expectation_operators =
                  List([i \in 1..PyLen(runner.args.circuits) |->
                           runner.args.expectation_operators.items[1]])

\* C12 witness: a call with three circuits and the one operator ZZZZ has
\* sent ZZZZ three times.
C12_Witness ==
    /\ runner.called
    /\ runner.args.circuits = CircuitList(3)
    /\ runner.args.expectation_operators = List(<<"ZZZZ">>)
    /\ runner.submitted
    /\ runner.result.inputs.expectation_operators =
           List(<<"ZZZZ", "ZZZZ", "ZZZZ">>)

\* the entries of inputs that C14 compares with the arguments
ArgumentKeys ==
    {"circuits", "shots", "transpiler_config", "run_config", "return_stddev",
     "skip_transpilation", "use_measurement_mitigation"}

\* C14: every call that does not raise invokes service.run exactly once,
\* with the uploaded program_id, with options {'backend_name': b} where b is
\* the given string or the name of the given backend object, and with inputs
\* whose circuits, shots, transpiler_config, run_config, return_stddev,
\* skip_transpilation and use_measurement_mitigation entries are the
\* arguments passed; the handle of that run is the call's result.
C14_ServiceRunOncePerCall ==
    [][(ncalls' = ncalls + 1 /\ ~runner'.raised) =>
          LET a == runner'.args
              job == runner'.result
          IN  /\ service_runs' = service_runs + 1
              /\ runner'.submitted
              /\ job.job_id = service_runs'
              /\ job.program_id = program_id
              /\ job.options =
                     [backend_name |-> IF a.backend.isStr THEN a.backend.str
                                       ELSE a.backend.name]
              /\ \A k \in ArgumentKeys : job.inputs[k] = a[k]]_vars

\* C14 witness: a second submitted call, made with a backend object, a
\* transpiler_config and all three flags set, whose job names the backend.
C14_Witness ==
    /\ runner.called
    /\ ~runner.raised
    /\ service_runs = 2
    /\ ~runner.args.backend.isStr
    /\ runner.args.transpiler_config = SabreConfig
    /\ runner.args.return_stddev
    /\ runner.result.job_id = 2
    /\ runner.result.options = [backend_name |-> "ibmq_manila"]
    /\ runner.result.inputs.transpiler_config = SabreConfig

\* C17: a call that raises ValueError has not called service.run: the number
\* of runs is what it was before the call and no job handle is returned.
C17_NoJobWhenValidationFails ==
    [][(ncalls' = ncalls + 1 /\ runner'.raised) =>
          /\ service_runs' = service_runs
          /\ ~runner'.submitted
          /\ runner'.result = NoJob]_vars

\* C17 witness: a call has raised after an earlier call had submitted a job,
\* and the number of runs is still one.
C17_Witness ==
    /\ runner.called
    /\ runner.raised
    /\ ncalls = 2
    /\ service_runs = 1
    /\ runner.result = NoJob

\* the steps of a run with measurement mitigation, after transpilation
MitigatedSteps ==
    <<"final_measurement_mapping", "M3Mitigation", "cals_from_system",
      "backend.run", "get_counts", "apply_correction">>

\* the routines called so far, in order, transpile left out
StepsSoFar ==
    LET made == SelectSeq(prog.calls, LAMBDA c : c.fn # "transpile")
    IN  [i \in 1..Len(made) |-> made[i].fn]

\* C13: in every run with use_measurement_mitigation the mitigator is built
\* and calibrated (cals_from_system) on the measurement mappings of the
\* circuits that are run, then backend.run is called once and its counts
\* are obtained, then apply_correction is applied to those counts, then the
\* expectation values are computed; the calls made so far are always a
\* prefix of this order, and a finished run has made each exactly once.
C13_MitigationStepsInOrder ==
    (MainEntered /\ prog.args.use_measurement_mitigation) =>
        /\ Len(StepsSoFar) <= Len(MitigatedSteps)
        /\ \A i \in 1..Len(StepsSoFar) : StepsSoFar[i] = MitigatedSteps[i]
        /\ prog.retval # NoValue <=> MainDone
        /\ MainDone =>
               /\ StepsSoFar = MitigatedSteps
               /\ TheCall("cals_from_system").args[1] =
                      List(FinalMeasurementMapping(TheCall("backend.run").args[1]))
               /\ TheCall("apply_correction").args[1] =
                      TheCall("get_counts").out
               /\ TheCall("apply_correction").args[2] =
                      TheCall("cals_from_system").args[1]
               /\ prog.retval.dists.items \in
                      {TheCall("apply_correction").out.items,
                       Repeat(TheCall("apply_correction").out.items,
                              PyLen(prog.args.expectation_operators))}

\* C13 witness: a finished mitigated run that transpiled three circuits and
\* made the six calls after it.
C13_Witness ==
    /\ MainDone
    /\ prog.args.use_measurement_mitigation
    /\ ~prog.args.skip_transpilation
    /\ PyLen(prog.trans_circuits) = 3
    /\ Len(prog.calls) = 7
    /\ prog.calls[7].fn = "apply_correction"

\* C19: the circuits argument of every backend.run call is a list whose
\* length is the number of circuits supplied, whether a single circuit or a
\* list was supplied and whether or not transpilation was skipped; a
\* finished run has called backend.run once.
C19_BackendRunGetsAList ==
    MainEntered =>
        /\ \A i \in CallsOf(prog.calls, "backend.run") :
              /\ IsList(prog.calls[i].args[1])
              /\ PyLen(prog.calls[i].args[1]) = NumCircuits(prog.args)
        /\ MainDone => Cardinality(CallsOf(prog.calls, "backend.run")) = 1

\* C19 witness: a finished run that was given a single circuit, skipped
\* transpilation and ran the list of that circuit.
C19_Witness ==
    /\ MainDone
    /\ prog.args.skip_transpilation
    /\ prog.args.circuits = Single(Circuit(1))
    /\ TheCall("backend.run").args[1] = List(<<Circuit(1)>>)

(***************************************************************************)
(* Further claims about heavy_projector (specification SpecHeavy).         *)
(***************************************************************************)
\* C18: for a probability dictionary of n entries heavy_projector returns at
\* most floor(n/2) bitstrings, each of them a key of the input and none
\* twice, and leaves the input dictionary as it was passed; when all
\* probabilities are equal it returns the empty projector.
C18_AtMostHalfAreHeavy ==
    hp.called =>
        /\ Len(hp.heavy_strs) <= Len(hp.arg) \div 2
        /\ Cardinality(Keys(hp.heavy_strs)) = Len(hp.heavy_strs)
        /\ Keys(hp.heavy_strs) \subseteq Keys(hp.arg)
        /\ qv_probs = hp.arg
        /\ (\A i, j \in 1..Len(hp.arg) : hp.arg[i].val = hp.arg[j].val) =>
               hp.heavy_strs = << >>

\* C18 witness: a dictionary of three entries with the same nonzero
\* probability gave the empty projector.
C18_Witness ==
    /\ hp.called
    /\ Len(hp.arg) = 3
    /\ \A i \in 1..3 : hp.arg[i].val = 1
    /\ hp.heavy_strs = << >>
    /\ qv_probs = hp.arg

(***************************************************************************)
(* Claims about the uploaded metadata.                                     *)
(***************************************************************************)
\* C15: once main and meta are defined, every default declared in the
\* parameter schema of meta equals the default of the parameter of main
\* with the same name.
C15_SchemaDefaultsAreMainDefaults ==
    (Defined("main") /\ Defined("meta")) =>
        \A k \in SchemaDefaulted :
            /\ k \in DOMAIN MainDefaults
            /\ meta_parameters[k].default = MainDefaults[k]

\* C16: every key of the inputs dictionary sent to service.run is a property
\* declared in the parameter schema of meta.
C16_InputKeysAreSchemaProperties ==
    (runner.called /\ runner.submitted) =>
        DOMAIN runner.result.inputs \subseteq DOMAIN meta_parameters

(***************************************************************************)
(* Claims about the objects passed to expectation_value_runner and main    *)
(* (specification SpecFrame).                                              *)
(***************************************************************************)
\* C20: after a call of expectation_value_runner, and at every step of a run
\* of main, the caller's circuits, expectation_operators, transpiler_config
\* and run_config are as they were passed: when a single operator is
\* broadcast the list sent is a new one and the caller's list keeps its
\* length; the default dictionaries of both functions are empty after every
\* call, so a call that leaves a dictionary out starts with an empty one.
C20_ArgumentsAreNotModified ==
    /\ runner.called =>
           /\ runner.objects = Objects(runner.args)
           /\ runner.defaults = EmptyDefaults
           /\ \A k \in Omitted(runner.args) : runner.args[k] = EmptyDict
           /\ (~runner.raised
               /\ PyLen(runner.result.inputs.expectation_operators)
                      # PyLen(runner.args.expectation_operators)) =>
                  PyLen(runner.objects.expectation_operators) =
                      PyLen(runner.args.expectation_operators)
    /\ MainEntered =>
           /\ prog.objects = Objects(prog.args)
           /\ prog.defaults = EmptyDefaults
           /\ \A k \in Omitted(prog.args) : prog.args[k] = EmptyDict

\* C20 witness: a third call of expectation_value_runner, which left both
\* dictionaries out and broadcast one operator over several circuits, and
\* a finished run of main, which left both dictionaries out and ran the
\* caller's own list of circuits.
C20_Witness ==
    /\ ncalls = 3
    /\ runner.called
    /\ Omitted(runner.args) = ConfigParameters
    /\ PyLen(runner.args.expectation_operators) = 1
    /\ PyLen(runner.result.inputs.expectation_operators) > 1
    /\ runner.objects.expectation_operators = OperatorList(1)
    /\ MainDone
    /\ Omitted(prog.args) = ConfigParameters
    /\ prog.args.skip_transpilation
    /\ IsList(prog.args.circuits)
    /\ prog.trans_circuits = prog.objects.circuits

====
